---- MODULE Spec2Model ----
(***************************************************************************)
(* Model of the wgpu renderer (src/src/renderer.rs) and of the winit event *)
(* loop that drives it (src/src/main.rs).                                  *)
(*                                                                         *)
(* The Renderer is a record; each of its methods is an operator from the   *)
(* record and the method's arguments (plus what the GPU driver answers) to *)
(* the record after the call, the method's result and the sequence of      *)
(* driver calls the method made, in order.  The actions are the events the *)
(* event loop delivers to the closure of main.                             *)
(***************************************************************************)
EXTENDS Integers, Sequences, FiniteSets, TLC

VARIABLES
    pc,            \* where main is: "start", "loop", "failed", "destroyed", "dropped"
    control_flow,  \* winit's ControlFlow as the closure left it: "Poll" or "Exit"
    renderer,      \* the Renderer value owned by the closure, NoRenderer before new
    driverCalls,   \* how many calls of each kind have reached the GPU driver
    lastOp,        \* the Renderer method called last, its arguments and its result
    calls,         \* the driver calls the last event made, in order
    released,      \* the GPU resources released so far, in order
    shutdowns,     \* calls of Renderer::cleanup that have returned
    ticks          \* events delivered to the closure so far

vars == <<pc, control_flow, renderer, driverCalls, lastOp, calls, released,
          shutdowns, ticks>>

(* Bounds of the model. *)
MaxDim == 2
MaxTicks == 4
MaxFrames == 2
MaxLiveTicks == 2

DimValues == 0..MaxDim
Dimensions == {<<w, h>> : w \in DimValues, h \in DimValues}

(* What Surface::get_current_texture can answer: a frame, or a SurfaceError. *)
SurfaceErrors == {"Timeout", "Outdated", "Lost", "OutOfMemory"}
Acquisitions == {"Ok"} \cup SurfaceErrors

(* What the driver can answer during Renderer::new. *)
Negotiations == {"Ok", "NoAdapter", "DeviceRejected", "NoFormat"}

NoRenderer == [exists |-> FALSE]
NoDimensions == <<0, 0>>

(* ---------------------------------------------------------------------- *)
(* texture.rs (not among the sources): the attachment texture provider.    *)
(* ---------------------------------------------------------------------- *)
create_depth_texture(width, height) ==
    [width |-> width, height |-> height, label |-> "Depth Texture"]

(* ---------------------------------------------------------------------- *)
(* Driver calls, as recorded in the order they are made.                   *)
(* ---------------------------------------------------------------------- *)
Configure(config) ==
    [op |-> "configure", width |-> config.width, height |-> config.height]

CreateDepthTexture(width, height) ==
    [op |-> "create_depth_texture", width |-> width, height |-> height]

CountOp(s, op) == Len(SelectSeq(s, LAMBDA c : c.op = op))

Frames(s) ==
    SelectSeq(s, LAMBDA c : c.op = "get_current_texture" /\ c.outcome = "Ok")

IndexOfOp(s, op) ==
    IF \E i \in 1..Len(s) : s[i].op = op
    THEN CHOOSE i \in 1..Len(s) : s[i].op = op /\ \A j \in 1..(i - 1) : s[j].op # op
    ELSE 0

(* ---------------------------------------------------------------------- *)
(* Renderer                                                                *)
(* ---------------------------------------------------------------------- *)

(* new as it would be with a default format taken when the surface        *)
(* reports none.                                                           *)
new_defaults_format(dimensions, negotiated) ==
    LET config == [usage |-> "RENDER_ATTACHMENT",
                   format |-> IF negotiated = "NoFormat" THEN "default"
                                                          ELSE "preferred",
                   width |-> dimensions[1],
                   height |-> dimensions[2],
                   present_mode |-> "Fifo"]
    IN  CASE negotiated = "NoAdapter" ->
               [result |-> "Err", self |-> NoRenderer,
                calls |-> <<[op |-> "create_surface"], [op |-> "request_adapter"]>>]
          [] negotiated = "DeviceRejected" ->
               [result |-> "Err", self |-> NoRenderer,
                calls |-> <<[op |-> "create_surface"], [op |-> "request_adapter"],
                            [op |-> "request_device"]>>]
          [] OTHER ->
               [result |-> "Ok",
                self |-> [exists |-> TRUE,
                          surface |-> config,
                          config |-> config,
                          dimensions |-> dimensions,
                          depth_texture |->
                              create_depth_texture(dimensions[1], dimensions[2])],
                calls |-> <<[op |-> "create_surface"], [op |-> "request_adapter"],
                            [op |-> "request_device"],
                            [op |-> "get_preferred_format"],
                            Configure(config),
                            CreateDepthTexture(dimensions[1], dimensions[2])>>]

(* Renderer::new: the adapter, the device and the preferred format are     *)
(* negotiated with the driver; each can fail and `?` returns the error.    *)
new(dimensions, negotiated) ==
    LET config == [usage |-> "RENDER_ATTACHMENT",
                   format |-> "preferred",
                   width |-> dimensions[1],
                   height |-> dimensions[2],
                   present_mode |-> "Fifo"]
    IN  CASE negotiated = "NoAdapter" ->
               [result |-> "Err", self |-> NoRenderer,
                calls |-> <<[op |-> "create_surface"], [op |-> "request_adapter"]>>]
          [] negotiated = "DeviceRejected" ->
               [result |-> "Err", self |-> NoRenderer,
                calls |-> <<[op |-> "create_surface"], [op |-> "request_adapter"],
                            [op |-> "request_device"]>>]
          [] negotiated = "NoFormat" ->
               [result |-> "Err", self |-> NoRenderer,
                calls |-> <<[op |-> "create_surface"], [op |-> "request_adapter"],
                            [op |-> "request_device"],
                            [op |-> "get_preferred_format"]>>]
          [] OTHER ->
               [result |-> "Ok",
                self |-> [exists |-> TRUE,
                          surface |-> config,
                          config |-> config,
                          dimensions |-> dimensions,
                          depth_texture |->
                              create_depth_texture(dimensions[1], dimensions[2])],
                calls |-> <<[op |-> "create_surface"], [op |-> "request_adapter"],
                            [op |-> "request_device"],
                            [op |-> "get_preferred_format"],
                            Configure(config),
                            CreateDepthTexture(dimensions[1], dimensions[2])>>]

(* resize as it would be with `&&` for `||` in the zero test. *)
resize_both_zero(self, dimensions) ==
    IF dimensions[1] = 0 /\ dimensions[2] = 0
    THEN [self |-> self, calls |-> <<>>]
    ELSE LET config == [self.config EXCEPT !.width = dimensions[1],
                                           !.height = dimensions[2]]
         IN  [self |-> [self EXCEPT
                          !.dimensions = dimensions,
                          !.config = config,
                          !.surface = config,
                          !.depth_texture =
                              create_depth_texture(dimensions[1], dimensions[2])],
              calls |-> <<Configure(config),
                          CreateDepthTexture(dimensions[1], dimensions[2])>>]

(* resize as it would be with the height never written to the configuration. *)
resize_width_only(self, dimensions) ==
    IF dimensions[1] = 0 \/ dimensions[2] = 0
    THEN [self |-> self, calls |-> <<>>]
    ELSE LET config == [self.config EXCEPT !.width = dimensions[1]]
         IN  [self |-> [self EXCEPT
                          !.dimensions = dimensions,
                          !.config = config,
                          !.surface = config,
                          !.depth_texture =
                              create_depth_texture(dimensions[1], dimensions[2])],
              calls |-> <<Configure(config),
                          CreateDepthTexture(dimensions[1], dimensions[2])>>]

(* resize as it would be without the rebuild of the depth texture. *)
resize_keeps_depth_texture(self, dimensions) ==
    IF dimensions[1] = 0 \/ dimensions[2] = 0
    THEN [self |-> self, calls |-> <<>>]
    ELSE LET config == [self.config EXCEPT !.width = dimensions[1],
                                           !.height = dimensions[2]]
         IN  [self |-> [self EXCEPT
                          !.dimensions = dimensions,
                          !.config = config,
                          !.surface = config],
              calls |-> <<Configure(config)>>]

(* resize as it would be without the stored dimensions being written. *)
resize_forgets_dimensions(self, dimensions) ==
    IF dimensions[1] = 0 \/ dimensions[2] = 0
    THEN [self |-> self, calls |-> <<>>]
    ELSE LET config == [self.config EXCEPT !.width = dimensions[1],
                                           !.height = dimensions[2]]
         IN  [self |-> [self EXCEPT
                          !.config = config,
                          !.surface = config,
                          !.depth_texture =
                              create_depth_texture(dimensions[1], dimensions[2])],
              calls |-> <<Configure(config),
                          CreateDepthTexture(dimensions[1], dimensions[2])>>]

(* resize as it would be without the surface being configured again. *)
resize_skips_configure(self, dimensions) ==
    IF dimensions[1] = 0 \/ dimensions[2] = 0
    THEN [self |-> self, calls |-> <<>>]
    ELSE LET config == [self.config EXCEPT !.width = dimensions[1],
                                           !.height = dimensions[2]]
         IN  [self |-> [self EXCEPT
                          !.dimensions = dimensions,
                          !.config = config,
                          !.depth_texture =
                              create_depth_texture(dimensions[1], dimensions[2])],
              calls |-> <<CreateDepthTexture(dimensions[1], dimensions[2])>>]

(* resize as it would be with the depth texture rebuilt before the surface *)
(* is configured.                                                          *)
resize_rebuilds_depth_first(self, dimensions) ==
    IF dimensions[1] = 0 \/ dimensions[2] = 0
    THEN [self |-> self, calls |-> <<>>]
    ELSE LET config == [self.config EXCEPT !.width = dimensions[1],
                                           !.height = dimensions[2]]
         IN  [self |-> [self EXCEPT
                          !.dimensions = dimensions,
                          !.config = config,
                          !.surface = config,
                          !.depth_texture =
                              create_depth_texture(dimensions[1], dimensions[2])],
              calls |-> <<CreateDepthTexture(dimensions[1], dimensions[2]),
                          Configure(config)>>]

(* Renderer::resize *)
resize(self, dimensions) ==
    IF dimensions[1] = 0 \/ dimensions[2] = 0
    THEN [self |-> self, calls |-> <<>>]
    ELSE LET config == [self.config EXCEPT !.width = dimensions[1],
                                           !.height = dimensions[2]]
         IN  [self |-> [self EXCEPT
                          !.dimensions = dimensions,
                          !.config = config,
                          !.surface = config,
                          !.depth_texture =
                              create_depth_texture(dimensions[1], dimensions[2])],
              calls |-> <<Configure(config),
                          CreateDepthTexture(dimensions[1], dimensions[2])>>]

(* render_frame as it would be with the frame dropped without present. *)
render_frame_never_presents(self, dimensions, acquired) ==
    IF acquired # "Ok"
    THEN [result |-> acquired,
          calls |-> <<[op |-> "get_current_texture", outcome |-> acquired]>>]
    ELSE [result |-> "Ok",
          calls |-> <<[op |-> "get_current_texture", outcome |-> "Ok"],
                      [op |-> "create_view"],
                      [op |-> "create_command_encoder"],
                      [op |-> "begin_render_pass",
                       color_attachments |->
                           <<[width |-> self.surface.width,
                              height |-> self.surface.height,
                              clear |-> <<1, 2, 3, 10>>]>>,
                       depth_stencil_attachment |->
                           <<[width |-> self.depth_texture.width,
                              height |-> self.depth_texture.height,
                              clear |-> 10]>>],
                      [op |-> "submit"]>>]

(* Renderer::render_frame: the dimensions argument is unused. *)
render_frame(self, dimensions, acquired) ==
    IF acquired # "Ok"
    THEN [result |-> acquired,
          calls |-> <<[op |-> "get_current_texture", outcome |-> acquired]>>]
    ELSE [result |-> "Ok",
          calls |-> <<[op |-> "get_current_texture", outcome |-> "Ok"],
                      [op |-> "create_view"],
                      [op |-> "create_command_encoder"],
                      [op |-> "begin_render_pass",
                       color_attachments |->
                           <<[width |-> self.surface.width,
                              height |-> self.surface.height,
                              clear |-> <<1, 2, 3, 10>>]>>,
                       depth_stencil_attachment |->
                           <<[width |-> self.depth_texture.width,
                              height |-> self.depth_texture.height,
                              clear |-> 10]>>],
                      [op |-> "submit"],
                      [op |-> "present"]>>]

(* render as it would be with Outdated matched together with Lost. *)
render_outdated_resizes(self, dimensions, acquired) ==
    LET frame == render_frame(self, dimensions, acquired)
    IN  CASE frame.result = "Ok" ->
               [result |-> "Ok", self |-> self, calls |-> frame.calls]
          [] frame.result \in {"Lost", "Outdated"} ->
               LET resized == resize(self, self.dimensions)
               IN  [result |-> "Ok", self |-> resized.self,
                    calls |-> frame.calls \o resized.calls]
          [] OTHER ->
               [result |-> "Ok", self |-> self,
                calls |-> frame.calls \o <<[op |-> "eprintln"]>>]

(* render as it would be with every acquisition error answered by a resize. *)
render_every_error_resizes(self, dimensions, acquired) ==
    LET frame == render_frame(self, dimensions, acquired)
    IN  CASE frame.result = "Ok" ->
               [result |-> "Ok", self |-> self, calls |-> frame.calls]
          [] OTHER ->
               LET resized == resize(self, self.dimensions)
               IN  [result |-> "Ok", self |-> resized.self,
                    calls |-> frame.calls \o resized.calls]

(* render as it would be with the lost surface resized to the dimensions  *)
(* the caller passed.                                                      *)
render_resizes_to_argument(self, dimensions, acquired) ==
    LET frame == render_frame(self, dimensions, acquired)
    IN  CASE frame.result = "Ok" ->
               [result |-> "Ok", self |-> self, calls |-> frame.calls]
          [] frame.result = "Lost" ->
               LET resized == resize(self, dimensions)
               IN  [result |-> "Ok", self |-> resized.self,
                    calls |-> frame.calls \o resized.calls]
          [] OTHER ->
               [result |-> "Ok", self |-> self,
                calls |-> frame.calls \o <<[op |-> "eprintln"]>>]

(* render as it would be with the errors it does not handle returned. *)
render_returns_other_errors(self, dimensions, acquired) ==
    LET frame == render_frame(self, dimensions, acquired)
    IN  CASE frame.result = "Ok" ->
               [result |-> "Ok", self |-> self, calls |-> frame.calls]
          [] frame.result = "Lost" ->
               LET resized == resize(self, self.dimensions)
               IN  [result |-> "Ok", self |-> resized.self,
                    calls |-> frame.calls \o resized.calls]
          [] OTHER ->
               [result |-> "Err", self |-> self, calls |-> frame.calls]

(* Renderer::render *)
render(self, dimensions, acquired) ==
    LET frame == render_frame(self, dimensions, acquired)
    IN  CASE frame.result = "Ok" ->
               [result |-> "Ok", self |-> self, calls |-> frame.calls]
          [] frame.result = "Lost" ->
               LET resized == resize(self, self.dimensions)
               IN  [result |-> "Ok", self |-> resized.self,
                    calls |-> frame.calls \o resized.calls]
          [] OTHER ->
               [result |-> "Ok", self |-> self,
                calls |-> frame.calls \o <<[op |-> "eprintln"]>>]

(* cleanup as it would be with the queue flushed by an empty submission. *)
cleanup_flushes_queue(self) ==
    [result |-> "Ok", self |-> self, calls |-> <<[op |-> "submit"]>>,
     released |-> <<>>]

(* Renderer::cleanup *)
cleanup(self) == [result |-> "Ok", self |-> self, calls |-> <<>>, released |-> <<>>]

(* Dropping the Renderer drops its fields in the order of declaration. *)
DropOrder == <<"surface", "device", "queue", "depth_texture">>

(* ---------------------------------------------------------------------- *)
(* main.rs                                                                 *)
(* ---------------------------------------------------------------------- *)
handle_main_events_cleared(self, window_dimensions, acquired) ==
    render(self, window_dimensions, acquired)

handle_loop_destroyed(self) == cleanup(self)

handle_resize(self, physical_size) ==
    [result |-> "Ok"] @@ resize(self, physical_size)

handle_scale_factor_changed(self, new_inner_size) ==
    [result |-> "Ok"] @@ resize(self, new_inner_size)

(* The closure given to event_loop.run: a step that returns an error sets  *)
(* ControlFlow::Exit; winit keeps Exit once it has been set.               *)
ControlFlowAfter(requested, result) ==
    IF control_flow = "Exit" \/ requested = "Exit" \/ result = "Err"
    THEN "Exit"
    ELSE "Poll"

Counted(s) ==
    [configure |-> driverCalls.configure + CountOp(s, "configure"),
     create_depth_texture |->
         driverCalls.create_depth_texture + CountOp(s, "create_depth_texture"),
     acquired |-> driverCalls.acquired + Len(Frames(s)),
     submit |-> driverCalls.submit + CountOp(s, "submit"),
     present |-> driverCalls.present + CountOp(s, "present")]

(* main as it would be with the error of Renderer::new not returned. *)
AfterNew_runs_loop(result) == "loop"

(* main, line 32: `?` returns from main when Renderer::new fails, and the  *)
(* event loop of line 34 is run only after block_on has returned.          *)
AfterNew(result) == IF result = "Ok" THEN "loop" ELSE "failed"

Op(op, dimensions, acquired, result) ==
    [op |-> op, dimensions |-> dimensions, acquired |-> acquired, result |-> result]

Init ==
    /\ pc = "start"
    /\ control_flow = "Poll"
    /\ renderer = NoRenderer
    /\ driverCalls = [configure |-> 0, create_depth_texture |-> 0, acquired |-> 0,
                      submit |-> 0, present |-> 0]
    /\ lastOp = Op("none", NoDimensions, "None", "Ok")
    /\ calls = <<>>
    /\ released = <<>>
    /\ shutdowns = 0
    /\ ticks = 0

(* main, lines 30-32: the window's size is read and the Renderer built. *)
Initialize ==
    /\ pc = "start"
    /\ \E window_dimensions \in Dimensions, negotiated \in Negotiations :
         LET r == new(window_dimensions, negotiated)
         IN  /\ renderer' = r.self
             /\ calls' = r.calls
             /\ driverCalls' = Counted(r.calls)
             /\ lastOp' = Op("new", window_dimensions, negotiated, r.result)
             /\ pc' = AfterNew(r.result)
    /\ UNCHANGED <<control_flow, released, shutdowns, ticks>>

Delivered(r, op, dimensions, acquired, requested) ==
    /\ renderer' = r.self
    /\ calls' = r.calls
    /\ driverCalls' = Counted(r.calls)
    /\ lastOp' = Op(op, dimensions, acquired, r.result)
    /\ control_flow' = ControlFlowAfter(requested, r.result)
    /\ ticks' = ticks + 1
    /\ UNCHANGED <<pc, released, shutdowns>>

(* Event::MainEventsCleared *)
MainEventsCleared ==
    /\ pc = "loop"
    /\ ticks < MaxTicks
    /\ \E window_dimensions \in Dimensions, acquired \in Acquisitions :
         Delivered(handle_main_events_cleared(renderer, window_dimensions, acquired),
                   "render", window_dimensions, acquired, "Poll")

(* WindowEvent::Resized *)
Resized ==
    /\ pc = "loop"
    /\ ticks < MaxTicks
    /\ \E physical_size \in Dimensions :
         Delivered(handle_resize(renderer, physical_size),
                   "resize", physical_size, "None", "Poll")

(* WindowEvent::ScaleFactorChanged *)
ScaleFactorChanged ==
    /\ pc = "loop"
    /\ ticks < MaxTicks
    /\ \E new_inner_size \in Dimensions :
         Delivered(handle_scale_factor_changed(renderer, new_inner_size),
                   "resize", new_inner_size, "None", "Poll")

(* WindowEvent::CloseRequested *)
CloseRequested ==
    /\ pc = "loop"
    /\ ticks < MaxTicks
    /\ Delivered([result |-> "Ok", self |-> renderer, calls |-> <<>>],
                 "none", NoDimensions, "None", "Exit")

(* Any other event: the input handlers are stubs, the rest is ignored. *)
OtherEvent ==
    /\ pc = "loop"
    /\ ticks < MaxTicks
    /\ Delivered([result |-> "Ok", self |-> renderer, calls |-> <<>>],
                 "none", NoDimensions, "None", "Poll")

(* Event::LoopDestroyed: delivered last, once the control flow is Exit. *)
LoopDestroyed ==
    /\ pc = "loop"
    /\ control_flow = "Exit"
    /\ LET r == handle_loop_destroyed(renderer)
       IN  /\ renderer' = r.self
           /\ calls' = r.calls
           /\ driverCalls' = Counted(r.calls)
           /\ released' = released \o r.released
           /\ lastOp' = Op("cleanup", NoDimensions, "None", r.result)
    /\ shutdowns' = shutdowns + 1
    /\ pc' = "destroyed"
    /\ UNCHANGED <<control_flow, ticks>>

(* The closure, and the Renderer it owns, is dropped when the loop ends. *)
DropRenderer ==
    /\ pc = "destroyed"
    /\ pc' = "dropped"
    /\ released' = released \o DropOrder
    /\ renderer' = NoRenderer
    /\ lastOp' = Op("drop", NoDimensions, "None", "Ok")
    /\ calls' = <<>>
    /\ UNCHANGED <<control_flow, driverCalls, shutdowns, ticks>>

Next ==
    \/ Initialize
    \/ MainEventsCleared
    \/ Resized
    \/ ScaleFactorChanged
    \/ CloseRequested
    \/ OtherEvent
    \/ LoopDestroyed
    \/ DropRenderer

Spec == Init /\ [][Next]_vars

(* ---------------------------------------------------------------------- *)
(* The Renderer under any caller: its public methods (resize, render and   *)
(* cleanup take &mut self) called in any order once new has returned it.   *)
(* ---------------------------------------------------------------------- *)
CallResize ==
    /\ renderer.exists
    /\ ticks < MaxTicks
    /\ \E dimensions \in Dimensions :
         Delivered([result |-> "Ok"] @@ resize(renderer, dimensions),
                   "resize", dimensions, "None", "Poll")

CallRender ==
    /\ renderer.exists
    /\ ticks < MaxTicks
    /\ \E dimensions \in Dimensions, acquired \in Acquisitions :
         Delivered(render(renderer, dimensions, acquired),
                   "render", dimensions, acquired, "Poll")

CallCleanup ==
    /\ renderer.exists
    /\ ticks < MaxTicks
    /\ LET r == cleanup(renderer)
       IN  /\ renderer' = r.self
           /\ calls' = r.calls
           /\ driverCalls' = Counted(r.calls)
           /\ released' = released \o r.released
           /\ lastOp' = Op("cleanup", NoDimensions, "None", r.result)
    /\ shutdowns' = shutdowns + 1
    /\ ticks' = ticks + 1
    /\ UNCHANGED <<pc, control_flow>>

CallerNext ==
    \/ Initialize
    \/ CallResize
    \/ CallRender
    \/ CallCleanup

CallerSpec == Init /\ [][CallerNext]_vars

(* ---------------------------------------------------------------------- *)
(* The event loop with ControlFlow::Poll (main.rs:35, 49) keeps delivering *)
(* MainEventsCleared; IdleTickAcquires is such a tick whose frame          *)
(* acquisition succeeds, delivered however many events came before it.     *)
(* ---------------------------------------------------------------------- *)
IdleTickAcquires ==
    /\ pc = "loop"
    /\ driverCalls.acquired < MaxFrames
    /\ \E window_dimensions \in Dimensions :
         Delivered(handle_main_events_cleared(renderer, window_dimensions, "Ok"),
                   "render", window_dimensions, "Ok", "Poll")

LiveNext ==
    \/ Initialize
    \/ /\ ticks < MaxLiveTicks
       /\ \/ MainEventsCleared
          \/ Resized
          \/ ScaleFactorChanged
          \/ CloseRequested
          \/ OtherEvent
    \/ LoopDestroyed
    \/ DropRenderer
    \/ IdleTickAcquires

LiveSpec == Init /\ [][LiveNext]_vars /\ WF_vars(IdleTickAcquires)

(* ---------------------------------------------------------------------- *)
(* Properties                                                              *)
(* ---------------------------------------------------------------------- *)
HasZero(dimensions) == dimensions[1] = 0 \/ dimensions[2] = 0

Ready == pc = "loop" /\ renderer.exists

Configures(s) == SelectSeq(s, LAMBDA c : c.op = "configure")

(* C1: a resize with a zero width or a zero height changes nothing: the    *)
(* stored dimensions, the Surface Configuration, the live surface's        *)
(* configuration and the depth texture are as before, and the call makes   *)
(* no surface configure call and allocates no depth texture.               *)
C1_ResizeZeroChangesNothing ==
    [][(lastOp'.op = "resize" /\ HasZero(lastOp'.dimensions))
         => /\ renderer' = renderer
            /\ driverCalls' = driverCalls
            /\ CountOp(calls', "configure") = 0
            /\ CountOp(calls', "create_depth_texture") = 0]_vars

C1_Witness ==
    /\ Ready
    /\ lastOp.op = "resize"
    /\ lastOp.dimensions = <<0, 2>>
    /\ renderer.dimensions = <<1, 1>>

(* C2: after a resize to (w,h) with w > 0 and h > 0, the Surface           *)
(* Configuration's width and height and the depth texture's dimensions     *)
(* are (w,h).                                                              *)
C2_ResizeSetsDimensions ==
    (lastOp.op = "resize" /\ ~HasZero(lastOp.dimensions))
      => /\ <<renderer.config.width, renderer.config.height>> = lastOp.dimensions
         /\ <<renderer.depth_texture.width, renderer.depth_texture.height>>
              = lastOp.dimensions

C2_Witness ==
    /\ lastOp.op = "resize"
    /\ lastOp.dimensions = <<2, 1>>
    /\ driverCalls.configure = 2
    /\ renderer.config.width = 2
    /\ renderer.depth_texture.height = 1

RenderPasses(s) == SelectSeq(s, LAMBDA c : c.op = "begin_render_pass")

(* C3: between operations the depth texture's dimensions are the Surface   *)
(* Configuration's width and height, and a render pass is only ever built  *)
(* with a depth attachment of the size of the configured surface.          *)
C3_DepthMatchesConfiguration ==
    renderer.exists
      => /\ renderer.depth_texture.width = renderer.config.width
         /\ renderer.depth_texture.height = renderer.config.height
         /\ \A i \in 1..Len(RenderPasses(calls)) :
              LET pass == RenderPasses(calls)[i]
              IN  /\ pass.depth_stencil_attachment[1].width = renderer.surface.width
                  /\ pass.depth_stencil_attachment[1].height = renderer.surface.height

C3_Witness ==
    /\ lastOp.op = "render"
    /\ lastOp.acquired = "Ok"
    /\ driverCalls.configure >= 2
    /\ Len(RenderPasses(calls)) = 1
    /\ renderer.depth_texture.width = 2
    /\ renderer.depth_texture.height = 1

(* C4: once the surface has been configured its width and height are > 0,  *)
(* and no configure call with a zero dimension reaches the driver.         *)
C4_ConfiguredDimensionsPositive ==
    /\ renderer.exists => renderer.surface.width > 0 /\ renderer.surface.height > 0
    /\ \A i \in 1..Len(Configures(calls)) :
         Configures(calls)[i].width > 0 /\ Configures(calls)[i].height > 0

(* C5: a render whose frame acquisition fails with Lost reconfigures once  *)
(* (one surface configure, one depth texture) with the stored dimensions,  *)
(* submits nothing, presents nothing, acquires once and returns Ok.        *)
C5_LostReconfiguresOnce ==
    (lastOp.op = "render" /\ lastOp.acquired = "Lost")
      => /\ CountOp(calls, "configure") = 1
         /\ CountOp(calls, "create_depth_texture") = 1
         /\ \A i \in 1..Len(Configures(calls)) :
              <<Configures(calls)[i].width, Configures(calls)[i].height>>
                = renderer.dimensions
         /\ CountOp(calls, "submit") = 0
         /\ CountOp(calls, "present") = 0
         /\ CountOp(calls, "get_current_texture") = 1
         /\ lastOp.result = "Ok"

C7_OutOfMemoryIsFatal ==
    (lastOp.op = "render" /\ lastOp.acquired = "OutOfMemory")
      => lastOp.result = "Err" /\ control_flow = "Exit"

(* C8: a render whose frame acquisition fails with an error other than     *)
(* Lost, Outdated and OutOfMemory (Timeout) skips the frame: nothing is    *)
(* submitted or presented, the surface is not configured, no depth texture *)
(* is allocated, the Renderer is unchanged and Ready, and render returns   *)
(* Ok.                                                                     *)
C8_TransientSkipsFrame ==
    [][(lastOp'.op = "render"
          /\ lastOp'.acquired \in SurfaceErrors \ {"Lost", "Outdated", "OutOfMemory"})
         => /\ renderer' = renderer
            /\ driverCalls' = driverCalls
            /\ CountOp(calls', "configure") = 0
            /\ CountOp(calls', "create_depth_texture") = 0
            /\ CountOp(calls', "submit") = 0
            /\ CountOp(calls', "present") = 0
            /\ lastOp'.result = "Ok"
            /\ pc' = "loop"
            /\ control_flow' = control_flow]_vars

C8_Witness ==
    /\ Ready
    /\ lastOp.op = "render"
    /\ lastOp.acquired = "Timeout"
    /\ lastOp.result = "Ok"
    /\ renderer.dimensions = <<1, 2>>
    /\ CountOp(calls, "eprintln") = 1

(* C9: a render whose frame acquisition succeeds makes one submission of   *)
(* one render pass with one colour and one depth attachment and then one   *)
(* present, the submission before the present; over any run the numbers    *)
(* of submissions, of presents and of acquired frames are equal.           *)
C9_OneSubmitThenOnePresent ==
    /\ driverCalls.submit = driverCalls.acquired
    /\ driverCalls.present = driverCalls.acquired
    /\ (lastOp.op = "render" /\ lastOp.acquired = "Ok")
         => /\ CountOp(calls, "submit") = 1
            /\ CountOp(calls, "present") = 1
            /\ Len(RenderPasses(calls)) = 1
            /\ Len(RenderPasses(calls)[1].color_attachments) = 1
            /\ Len(RenderPasses(calls)[1].depth_stencil_attachment) = 1
            /\ IndexOfOp(calls, "begin_render_pass") < IndexOfOp(calls, "submit")
            /\ IndexOfOp(calls, "submit") < IndexOfOp(calls, "present")

C9_Witness ==
    /\ lastOp.op = "render"
    /\ lastOp.acquired = "Ok"
    /\ driverCalls.acquired = 2
    /\ driverCalls.present = 2
    /\ CountOp(calls, "submit") = 1

Position(s, x) ==
    IF \E i \in 1..Len(s) : s[i] = x THEN CHOOSE i \in 1..Len(s) : s[i] = x ELSE 0

(* C10: once shutdown has returned the depth texture, the surface and the  *)
(* device and queue have been released, in that order.                     *)
C10_ShutdownReleasesInOrder ==
    lastOp.op = "cleanup"
      => /\ 0 < Position(released, "depth_texture")
         /\ Position(released, "depth_texture") < Position(released, "surface")
         /\ Position(released, "surface") < Position(released, "device")
         /\ Position(released, "surface") < Position(released, "queue")

(* C11: cleanup returns Ok and makes no driver call in whatever state it  *)
(* is called, also when no frame was ever rendered, and a cleanup after a  *)
(* first one leaves the Renderer and the released resources as they were.  *)
C11_CleanupIdempotent ==
    [][(lastOp'.op = "cleanup")
         => /\ lastOp'.result = "Ok"
            /\ calls' = <<>>
            /\ driverCalls' = driverCalls
            /\ (shutdowns >= 1 => renderer' = renderer /\ released' = released)]_vars

C11_Witness ==
    /\ lastOp.op = "cleanup"
    /\ shutdowns = 2
    /\ driverCalls.acquired = 0
    /\ renderer.exists

(* C12: once cleanup has returned, no later resize or render configures   *)
(* the surface, allocates a depth texture, submits or presents.            *)
C12_ShutDownIsTerminal ==
    [][(shutdowns >= 1 /\ lastOp'.op \in {"resize", "render"})
         => /\ CountOp(calls', "configure") = 0
            /\ CountOp(calls', "create_depth_texture") = 0
            /\ CountOp(calls', "submit") = 0
            /\ CountOp(calls', "present") = 0]_vars

(* C13: when the adapter, the device or the preferred format cannot be    *)
(* had, new returns an error, once (no retry); no Renderer exists, the     *)
(* surface was never configured, and main ends there: the event loop is    *)
(* not started and no resize, render or cleanup follows.                   *)
C13_FailedInitializeEndsMain ==
    /\ []((lastOp.op = "new" /\ lastOp.acquired # "Ok")
            => /\ lastOp.result = "Err"
               /\ ~renderer.exists
               /\ pc = "failed"
               /\ driverCalls.configure = 0
               /\ ticks = 0
               /\ shutdowns = 0)
    /\ [][pc # "failed"]_vars

C13_Witness ==
    /\ pc = "failed"
    /\ lastOp.op = "new"
    /\ lastOp.acquired = "NoFormat"
    /\ CountOp(calls, "get_preferred_format") = 1

C15_InitializeBeforeAnyCall ==
    /\ pc = "start"
         => ~renderer.exists /\ ticks = 0 /\ shutdowns = 0 /\ lastOp.op = "none"
    /\ pc = "failed"
         => ~renderer.exists /\ ticks = 0 /\ shutdowns = 0 /\ lastOp.op = "new"
    /\ pc = "loop" => renderer.exists
    /\ lastOp.op \in {"resize", "render", "cleanup"}
         => renderer.exists /\ pc \in {"loop", "destroyed"}

C15_Witness ==
    /\ lastOp.op = "render"
    /\ ticks = 1
    /\ pc = "loop"
    /\ renderer.exists

(* C16: the stored dimensions, the Surface Configuration's width and      *)
(* height and the depth texture's dimensions are those of the most recent  *)
(* resize with two non-zero dimensions, or the initial ones: the three     *)
(* agree in every state, a resize with non-zero dimensions sets them, any  *)
(* other call keeps them, and a repeated resize changes nothing.           *)
C16_GeometryFollowsLastResize ==
    /\ [](renderer.exists
            => /\ <<renderer.config.width, renderer.config.height>>
                    = renderer.dimensions
               /\ <<renderer.surface.width, renderer.surface.height>>
                    = renderer.dimensions
               /\ <<renderer.depth_texture.width, renderer.depth_texture.height>>
                    = renderer.dimensions)
    /\ [][(lastOp'.op \in {"resize", "render", "none"})
            => renderer'.dimensions =
                 (IF lastOp'.op = "resize" /\ ~HasZero(lastOp'.dimensions)
                  THEN lastOp'.dimensions
                  ELSE renderer.dimensions)]_vars
    /\ [][(lastOp.op = "resize" /\ lastOp'.op = "resize"
             /\ lastOp'.dimensions = lastOp.dimensions)
            => renderer' = renderer]_vars

C16_Witness ==
    /\ lastOp.op = "resize"
    /\ lastOp.dimensions = <<0, 1>>
    /\ renderer.dimensions = <<2, 2>>
    /\ driverCalls.configure >= 3
    /\ driverCalls.acquired >= 1

(* C17: the Surface Configuration is the configuration of the live        *)
(* surface in every state; its usage, format and present mode never        *)
(* change; it changes only in a resize, which configures the surface with  *)
(* the changed record in the same call, and a render changes it only as    *)
(* the resize after a lost surface.                                        *)
C17_ConfigurationInSync ==
    /\ [](renderer.exists
            => /\ renderer.surface = renderer.config
               /\ renderer.config.usage = "RENDER_ATTACHMENT"
               /\ renderer.config.present_mode = "Fifo")
    /\ [][(renderer.exists /\ renderer'.exists)
            => /\ renderer'.config.format = renderer.config.format
               /\ (renderer'.config # renderer.config
                     => /\ lastOp'.op = "resize"
                        /\ Len(Configures(calls')) = 1
                        /\ Configures(calls')[1].width = renderer'.config.width
                        /\ Configures(calls')[1].height = renderer'.config.height)
               /\ (Len(Configures(calls')) > 0
                     => /\ Configures(calls')[1].width = renderer'.surface.width
                        /\ Configures(calls')[1].height = renderer'.surface.height)
               /\ ((lastOp'.op = "render" /\ lastOp'.acquired # "Lost")
                     => /\ renderer'.config = renderer.config
                        /\ renderer'.surface = renderer.surface)]_vars

C17_Witness ==
    /\ lastOp.op = "resize"
    /\ renderer.config.width = 2
    /\ renderer.surface.width = 2
    /\ renderer.surface.height = 1
    /\ driverCalls.configure = 2

(* C18: a render, whatever dimensions it is passed and whatever the frame *)
(* acquisition answers, leaves the stored dimensions and the width and     *)
(* height of the Surface Configuration and of the live surface unchanged.  *)
C18_RenderKeepsGeometry ==
    [][(lastOp'.op = "render")
         => /\ renderer'.dimensions = renderer.dimensions
            /\ renderer'.config.width = renderer.config.width
            /\ renderer'.config.height = renderer.config.height
            /\ renderer'.surface.width = renderer.surface.width
            /\ renderer'.surface.height = renderer.surface.height]_vars

C18_Witness ==
    /\ lastOp.op = "render"
    /\ lastOp.acquired = "Lost"
    /\ lastOp.dimensions = <<0, 0>>
    /\ renderer.dimensions = <<2, 1>>
    /\ renderer.surface.width = 2
    /\ CountOp(calls, "configure") = 1

(* C19: a resize with non-zero dimensions makes exactly two driver calls: *)
(* first the surface is configured, with the configuration already at the  *)
(* new dimensions, then the depth texture is allocated at the new          *)
(* dimensions; no frame is acquired and no render pass begun in between.   *)
C19_ResizeOrder ==
    (lastOp.op = "resize" /\ ~HasZero(lastOp.dimensions))
      => /\ calls = <<[op |-> "configure",
                       width |-> lastOp.dimensions[1],
                       height |-> lastOp.dimensions[2]],
                      [op |-> "create_depth_texture",
                       width |-> lastOp.dimensions[1],
                       height |-> lastOp.dimensions[2]]>>
         /\ renderer.dimensions = lastOp.dimensions

C19_Witness ==
    /\ lastOp.op = "resize"
    /\ lastOp.dimensions = <<1, 2>>
    /\ Len(calls) = 2
    /\ calls[1].op = "configure"
    /\ driverCalls.configure = 3

FailedTick ==
    lastOp.op = "render" /\ lastOp.acquired \in {"Lost", "Outdated", "Timeout"}

Presented ==
    /\ lastOp.op = "render"
    /\ lastOp.acquired = "Ok"
    /\ CountOp(calls, "submit") = 1
    /\ CountOp(calls, "present") = 1

(* C20: a tick whose frame acquisition fails (lost, outdated or transient) *)
(* returns Ok and leaves the control flow and the Renderer ready; a later  *)
(* tick that acquires a frame submits and presents it; so while the loop   *)
(* polls and idle ticks that acquire a frame keep being delivered, a       *)
(* failed tick is followed by a presented frame (within the frames of the  *)
(* model, and unless the window is closed first).                          *)
C20_FailuresNeverDisableRendering ==
    /\ [][(lastOp'.op = "render"
             /\ lastOp'.acquired \in {"Lost", "Outdated", "Timeout"})
            => /\ lastOp'.result = "Ok"
               /\ control_flow' = control_flow
               /\ pc' = "loop"
               /\ renderer'.exists]_vars
    /\ [][(lastOp'.op = "render" /\ lastOp'.acquired = "Ok")
            => /\ driverCalls'.submit = driverCalls.submit + 1
               /\ driverCalls'.present = driverCalls.present + 1]_vars
    /\ ((FailedTick /\ control_flow = "Poll" /\ driverCalls.acquired < MaxFrames)
          ~> (Presented \/ control_flow = "Exit"))

C20_Witness ==
    /\ FailedTick
    /\ Ready
    /\ control_flow = "Poll"
    /\ driverCalls.acquired < MaxFrames
    /\ driverCalls.present = 0

====
